---- MODULE Spec2Model ----
(***************************************************************************)
(* Model of the image-measurement utility: the geometry engine of          *)
(* backend/geometry.py (distance summation, shoelace area, unit            *)
(* resolution, mile -> kilometre secondary values), the HTTP layer of      *)
(* backend/api.py with the session store of backend/persistence.py, and    *)
(* the path handling of the two front ends (image_measurement_tool.py,     *)
(* webapp/state.py).                                                       *)
(*                                                                         *)
(* Specifications.  Spec: one call of compute_measurements.  CallsSpec: a  *)
(* sequence of calls.  ApiSpec: one POST /measure.  SessionsSpec: a        *)
(* sequence of POST /measure and GET /sessions/{id}.  StoreSpec: threads   *)
(* calling the SessionStore at once.  UiSpec: the events of one front end; *)
(* DesktopSpec and WebSpec: the events of the desktop window and of the    *)
(* web page alone, the web page with its measure_path tasks and their      *)
(* responses arriving at any later time.                                   *)
(*                                                                         *)
(* Numbers.  A Python float is modelled as a binary floating-point number  *)
(* with a 12-bit significand in place of 53 bits.  A value v is held as    *)
(* the integer v * Scale ("ticks" of 1/Scale); a tick count is a float of  *)
(* the model when it is below 2 * Scale or a multiple of the quantum of    *)
(* its binade.  Every operation (+, -, *, /, hypot, reading a decimal      *)
(* literal) computes the exact result and rounds it once to the nearest    *)
(* float, ties to even, as IEEE 754 arithmetic does: sums are therefore    *)
(* not associative, and whole numbers of moderate size are exact.  The     *)
(* largest finite float is FloatMax; the inputs keep every sum and product *)
(* below it, and a power beyond it raises OverflowError as Python's ** does.*)
(* Optional[float] is a sequence: <<>> is None, <<v>> is the float v.      *)
(* A dict is a function from its keys to its values.                       *)
(***************************************************************************)
EXTENDS Integers, Sequences, FiniteSets, TLC

VARIABLES
    points, closed, unit_name, units_per_pixel,  \* arguments of the call
    result,    \* what the last call returned or raised
    pc,        \* position: "call", "done" or "raised"
    history,   \* the completed calls: arguments, result, points afterwards
    calls,     \* how many calls have completed
    payload,   \* the body of the HTTP request being handled
    response,  \* the HTTP response to it
    store,     \* the sessions file of the SessionStore: session id -> record
    desktop,   \* the fields of the desktop MeasurementWindow
    web,       \* the fields of the web MeasurementState
    lock,      \* the Lock of the SessionStore: the thread holding it, or None
    threads    \* the threads calling the SessionStore: call, position, locals

vars ==
    <<points, closed, unit_name, units_per_pixel, result, pc, history, calls,
      payload, response, store, desktop, web, lock, threads>>

engine_vars == <<points, closed, unit_name, units_per_pixel, result>>

api_vars == <<payload, response, store>>

ui_vars == <<desktop, web>>

thread_vars == <<lock, threads>>

\* ------------------------------------------------------------------ bounds

\* The longest point sequence a caller passes.
MaxPoints == 4

\* The number of calls in a sequence of invocations.
MaxCalls == 3

\* The longest path a user traces in the desktop window.
MaxPath == 4

\* The number of threads that call the SessionStore concurrently.
MaxThreads == 3

\* The longest path a user traces on the canvas of the web page.
MaxCanvasPath == 3

\* The number of measure_path tasks of the web page running at a time.
MaxTasks == 1

\* ------------------------------------------------------------ float model

\* The float 1.0 in ticks; floats in [1.0, 2.0) are one tick apart.
Scale == 2048

None == <<>>

Some(v) == <<v>>

Abs(v) == IF v < 0 THEN 0 - v ELSE v

Sign(v) == IF v < 0 THEN 0 - 1 ELSE 1

\* The spacing, in ticks, of the floats of the binade of a >= 0.
RECURSIVE Quantum(_)
Quantum(a) == IF a < 2 * Scale THEN 1 ELSE 2 * Quantum(a \div 2)

\* The float nearest to t / d ticks (d > 0), ties to even.
RoundRat(t, d) ==
    LET a   == Abs(t)
        dq  == d * Quantum(a \div d)
        n   == a \div dq
        rem == a - n * dq
        up  == 2 * rem > dq \/ (2 * rem = dq /\ n % 2 = 1)
    IN  Sign(t) * (IF up THEN n + 1 ELSE n) * (dq \div d)

\* The float a decimal literal num / den denotes.
FromDecimal(num, den) == RoundRat(num * Scale, den)

\* Float addition, subtraction, multiplication and division.
FAdd(a, b) == RoundRat(a + b, 1)

FSub(a, b) == RoundRat(a - b, 1)

\* The float nearest to a * b / d, where d is a power of two: factors of two
\* common to a numerator and d are cancelled first, so that the product of
\* two large floats (each an odd number below 2 * Scale times a power of two)
\* is formed from their significands.
RECURSIVE MulRat(_, _, _)
MulRat(a, b, d) ==
    IF a % d = 0 THEN RoundRat((a \div d) * b, 1)
    ELSE IF b % d = 0 THEN RoundRat(a * (b \div d), 1)
    ELSE IF d > 1 /\ a % 2 = 0 THEN MulRat(a \div 2, b, d \div 2)
    ELSE IF d > 1 /\ b % 2 = 0 THEN MulRat(a, b \div 2, d \div 2)
    ELSE RoundRat(a * b, d)

FMul(a, b) == MulRat(a, b, Scale)

\* The largest finite float, 4095.0: the model keeps the exponent range of
\* a float as short as its significand.
FloatMax == 4095 * Scale

\* base ** 2 raises OverflowError: the power is computed as a float and a
\* result beyond the largest finite float is reported as an error, where
\* + and * would return inf.
PowOverflows(base) == Abs(FMul(base, base)) > FloatMax

FDiv(a, b) == RoundRat(Sign(b) * a * Scale, Abs(b))

\* The largest r in lo..hi with r * r <= target (bisection).
RECURSIVE SqrtSearch(_, _, _)
SqrtSearch(lo, hi, target) ==
    IF lo >= hi THEN lo
    ELSE LET mid == (lo + hi + 1) \div 2
         IN  IF mid * mid <= target
             THEN SqrtSearch(mid, hi, target)
             ELSE SqrtSearch(lo, mid - 1, target)

\* The float nearest to sqrt(dx^2 + dy^2), for dx, dy >= 0.
HypotCalc(dx, dy) ==
    LET n    == dx * dx + dy * dy
        root == SqrtSearch(0, dx + dy, n)
        q    == Quantum(root)
        lo   == (root \div q) * q
        mid2 == (2 * lo + q) * (2 * lo + q)
        up   == 4 * n > mid2 \/ (4 * n = mid2 /\ (lo \div q) % 2 = 1)
    IN  IF up THEN lo + q ELSE lo

\* ------------------------------------------------------------- the inputs

\* A point object with whole-pixel coordinates.
Pt(px, py) == [x |-> px * Scale, y |-> py * Scale]

\* The points a caller can pass: the corners of a pixel square and one
\* position between pixels, left of the origin, (-2.1875, 3.65625).
OffGridPoint ==
    [x |-> 0 - FromDecimal(21875, 10000), y |-> FromDecimal(365625, 100000)]

PointChoices == {Pt(0, 0), Pt(1, 0), Pt(1, 1), Pt(0, 1), OffGridPoint}

PointSeqs == UNION {[1..n -> PointChoices] : n \in 0..MaxPoints}

\* The units_per_pixel arguments: None, 0.0, 1.0, 2.5 and 64.0, whose square
\* is beyond the largest float.
MultiplierChoices ==
    {None, Some(0), Some(FromDecimal(1, 1)), Some(FromDecimal(25, 10)),
     Some(FromDecimal(64, 1))}

\* The coordinate differences of two points.
DeltaPairs ==
    {<<Abs(p.x - q.x), Abs(p.y - q.y)>> : p \in PointChoices, q \in PointChoices}

\* math.hypot on the coordinate differences, computed once per difference.
HypotTable == [d \in DeltaPairs |-> HypotCalc(d[1], d[2])] @@ <<>>

\* math.hypot(dx, dy).
Hypot(dx, dy) == HypotTable[<<Abs(dx), Abs(dy)>>]

\* ------------------------------------------------------------- geometry.py

UNIT_CHOICES ==
    << <<"px", "px">>, <<"mm", "mm">>, <<"cm", "cm">>, <<"km", "km">>,
       <<"mi", "miles (mi)">> >>

UnitNames == {UNIT_CHOICES[i][1] : i \in DOMAIN UNIT_CHOICES}

\* float(point.x), float(point.y) of a point object.
extract_xy(point) == <<point.x, point.y>>

distance_between_points(start, end) ==
    LET s == extract_xy(start)
        e == extract_xy(end)
    IN  Hypot(s[1] - e[1], s[2] - e[2])

\* The loop of total_path_length over zip(points[:-1], points[1:]): the
\* running total after the pairs from index i on have been added.
RECURSIVE PathLoop(_, _, _)
PathLoop(pts, i, total) ==
    IF i >= Len(pts) THEN total
    ELSE PathLoop(pts, i + 1,
                  FAdd(total, distance_between_points(pts[i], pts[i + 1])))

\* The loop of a total_path_length that adds the segments from the last one
\* to the first.
RECURSIVE PathLoopBackwards(_, _, _)
PathLoopBackwards(pts, i, total) ==
    IF i < 1 THEN total
    ELSE PathLoopBackwards(pts, i - 1,
                           FAdd(total, distance_between_points(pts[i], pts[i + 1])))

\* A total_path_length that sums the same segments in the opposite order.
total_path_length_Backwards(pts, is_closed) ==
    IF Len(pts) < 2 THEN 0
    ELSE LET total == PathLoopBackwards(pts, Len(pts) - 1, 0)
         IN  IF is_closed /\ Len(pts) >= 3
             THEN FAdd(total, distance_between_points(pts[Len(pts)], pts[1]))
             ELSE total

total_path_length(pts, is_closed) ==
    IF Len(pts) < 2 THEN 0
    ELSE LET total == PathLoop(pts, 1, 0)
         IN  IF is_closed /\ Len(pts) >= 3
             THEN FAdd(total, distance_between_points(pts[Len(pts)], pts[1]))
             ELSE total

\* The loop of polygon_area: idx is the 0-based index of the code.
RECURSIVE AreaLoop(_, _, _)
AreaLoop(extracted, idx, area) ==
    IF idx >= Len(extracted) THEN area
    ELSE LET cur == extracted[idx + 1]
             nxt == extracted[((idx + 1) % Len(extracted)) + 1]
             a1  == FAdd(area, FMul(cur[1], nxt[2]))
             a2  == FSub(a1, FMul(nxt[1], cur[2]))
         IN  AreaLoop(extracted, idx + 1, a2)

\* A polygon_area whose loop stops before the wrapping term (last -> first).
polygon_area_NoWrap(pts) ==
    IF Len(pts) < 3 THEN 0
    ELSE LET extracted == [i \in 1..Len(pts) |-> extract_xy(pts[i])]
             first     == extracted[1]
             last      == extracted[Len(pts)]
             wrap      == FSub(FMul(last[1], first[2]), FMul(first[1], last[2]))
         IN  FDiv(Abs(FSub(AreaLoop(extracted, 0, 0), wrap)), 2 * Scale)

\* A polygon_area that returns the signed sum, without abs().
polygon_area_Signed(pts) ==
    IF Len(pts) < 3 THEN 0
    ELSE LET extracted == [i \in 1..Len(pts) |-> extract_xy(pts[i])]
             area      == AreaLoop(extracted, 0, 0)
         IN  FDiv(area, 2 * Scale)

polygon_area(pts) ==
    IF Len(pts) < 3 THEN 0
    ELSE LET extracted == [i \in 1..Len(pts) |-> extract_xy(pts[i])]
         IN  FDiv(Abs(AreaLoop(extracted, 0, 0)), 2 * Scale)

can_close_loop(pts) == Len(pts) >= 3

\* A resolve_unit_multiplier that lets a supplied multiplier override the
\* pixel unit's 1.0.
resolve_unit_multiplier_Supplied(unit, upp) ==
    IF unit = "px" /\ upp = None THEN Some(Scale) ELSE upp

resolve_unit_multiplier(unit, upp) ==
    IF unit = "px" THEN Some(Scale) ELSE upp

unit_choice_label(unit) ==
    IF \E i \in DOMAIN UNIT_CHOICES : UNIT_CHOICES[i][1] = unit
    THEN UNIT_CHOICES[CHOOSE i \in DOMAIN UNIT_CHOICES : UNIT_CHOICES[i][1] = unit][2]
    ELSE unit

display_unit_name(unit) == IF unit = "mi" THEN "mi" ELSE unit

\* The float literal 1.60934 (kilometres per mile).
KmPerMile == FromDecimal(160934, 100000)

EmptyDict == [k \in {} |-> 0]

\* The exception a call ends with in place of a result.
OverflowError == [raised |-> "OverflowError"]

\* A loop_is_closed that trusts the caller's request.
LoopIsClosed_Requested(pts, closed_arg) == closed_arg

\* loop_is_closed = closed and can_close_loop(points)
LoopIsClosed(pts, closed_arg) == closed_arg /\ can_close_loop(pts)

\* An area_pixels computed whether or not the loop is closed.
AreaPixels_Always(pts, loop_is_closed) == polygon_area(pts)

\* area_pixels = polygon_area(points) if loop_is_closed else 0.0
AreaPixels(pts, loop_is_closed) ==
    IF loop_is_closed THEN polygon_area(pts) ELSE 0

\* A total_units guarded by "if unit_multiplier:", which skips 0.0 as well
\* as None.
TotalUnits_Truthy(total_pixels, unit_multiplier) ==
    IF unit_multiplier # None /\ unit_multiplier[1] # 0
    THEN Some(FMul(total_pixels, unit_multiplier[1]))
    ELSE None

\* total_units: None, or total_pixels * unit_multiplier under
\* "if unit_multiplier is not None".
TotalUnits(total_pixels, unit_multiplier) ==
    IF unit_multiplier # None
    THEN Some(FMul(total_pixels, unit_multiplier[1]))
    ELSE None

\* An area_units scaled by the multiplier instead of its square.
AreaUnits_Linear(area_pixels, unit_multiplier, loop_is_closed) ==
    IF unit_multiplier # None /\ loop_is_closed
    THEN Some(FMul(area_pixels, unit_multiplier[1]))
    ELSE None

\* area_units: None, or area_pixels * (unit_multiplier ** 2) under
\* "if unit_multiplier is not None" and "if loop_is_closed".
AreaUnits(area_pixels, unit_multiplier, loop_is_closed) ==
    IF unit_multiplier # None /\ loop_is_closed
    THEN Some(FMul(area_pixels, FMul(unit_multiplier[1], unit_multiplier[1])))
    ELSE None

\* A secondary_distances guarded by "and total_units", which skips a total
\* of 0.0.
SecondaryDistances_Truthy(unit, unit_multiplier, total_units) ==
    IF unit_multiplier # None /\ unit = "mi" /\ total_units # None
       /\ total_units[1] # 0
    THEN [k \in {"km"} |-> FMul(total_units[1], KmPerMile)]
    ELSE EmptyDict

\* A secondary_distances that reports kilometres for every calibrated unit.
SecondaryDistances_AnyUnit(unit, unit_multiplier, total_units) ==
    IF unit_multiplier # None /\ total_units # None
    THEN [k \in {"km"} |-> FMul(total_units[1], KmPerMile)]
    ELSE EmptyDict

\* secondary_distances: {} or {"km": total_units * 1.60934}.
SecondaryDistances(unit, unit_multiplier, total_units) ==
    IF unit_multiplier # None /\ unit = "mi" /\ total_units # None
    THEN [k \in {"km"} |-> FMul(total_units[1], KmPerMile)]
    ELSE EmptyDict

\* secondary_areas: {} or one entry, area_units * (1.60934 ** 2), under the
\* key the source spells with the characters U+00C2 U+00B2 after "km".
SecondaryAreas(unit, unit_multiplier, total_units, area_units) ==
    IF unit_multiplier # None /\ unit = "mi" /\ total_units # None
       /\ area_units # None
    THEN [k \in {"kmÂ²"} |-> FMul(area_units[1], FMul(KmPerMile, KmPerMile))]
    ELSE EmptyDict

compute_measurements(pts, closed_arg, unit, upp) ==
    LET points_count    == Len(pts)
        loop_is_closed  == LoopIsClosed(pts, closed_arg)
        total_pixels    == total_path_length(pts, loop_is_closed)
        area_pixels     == AreaPixels(pts, loop_is_closed)
        unit_multiplier == resolve_unit_multiplier(unit, upp)
        total_units     == TotalUnits(total_pixels, unit_multiplier)
        area_units      == AreaUnits(area_pixels, unit_multiplier, loop_is_closed)
    IN  IF unit_multiplier # None /\ loop_is_closed
           /\ PowOverflows(unit_multiplier[1])
        THEN OverflowError
        ELSE
        [total_pixels        |-> total_pixels,
         area_pixels         |-> area_pixels,
         unit_name           |-> unit,
         unit_label          |-> unit_choice_label(unit),
         display_unit_name   |-> display_unit_name(unit),
         unit_multiplier     |-> unit_multiplier,
         total_units         |-> total_units,
         area_units          |-> area_units,
         closed              |-> loop_is_closed,
         points_count        |-> points_count,
         secondary_distances |-> SecondaryDistances(unit, unit_multiplier, total_units),
         secondary_areas     |-> SecondaryAreas(unit, unit_multiplier, total_units,
                                                area_units)]

\* ------------------------------------------------------ persistence.py

\* The sessions file as SessionStore.__init__ writes it: {}.
EmptyStore == [sid \in {} |-> 0]

\* A save_session that writes a fresh dict holding the one session.
save_session_Fresh(file, session_id, data) ==
    [sid \in {session_id} |-> data]

\* save_session, under the lock: the dict read from the file, with
\* payload[session_id] = data, written back.  The file is held as the dict
\* it encodes: the records consist of str keys, bools, None, floats and
\* lists.
save_session(file, session_id, data) ==
    [sid \in DOMAIN file \cup {session_id} |->
        IF sid = session_id THEN data ELSE file[sid]]

\* load_session, under the lock: _read().get(session_id).
load_session(file, session_id) ==
    IF session_id \in DOMAIN file THEN Some(file[session_id]) ELSE None

\* delete_session, under the lock: the dict read from the file without the
\* entry of session_id.
delete_session(file, session_id) ==
    [sid \in DOMAIN file \ {session_id} |-> file[sid]]

\* list_sessions, under the lock: _read().
list_sessions(file) == file

\* ------------------------------------------------------------------ api.py

\* The ValueError of a model validator (answered with status 422).
ValidationError == [error |-> "ValidationError"]

\* An exception of a validator that is no ValueError; it ends the request
\* with status 500.
ZeroDivisionError == [error |-> "ZeroDivisionError"]

\* self.units_per_pixel = ref_distance / ref_pixels; return self
DeriveMultiplier(scale) ==
    IF scale.reference_pixel_length[1] = 0 THEN ZeroDivisionError
    ELSE [scale EXCEPT !.units_per_pixel =
              Some(FDiv(scale.reference_distance[1],
                        scale.reference_pixel_length[1]))]

\* A validate_scale that tests the pixel length against None only.
validate_scale_NoZeroCheck(scale) ==
    IF scale.units_per_pixel # None THEN scale
    ELSE IF scale.reference_distance # None
            /\ scale.reference_pixel_length # None
    THEN DeriveMultiplier(scale)
    ELSE IF scale.unit_name # "px" THEN ValidationError
    ELSE scale

\* A validate_scale that derives the multiplier from the reference pair
\* whenever the pair is usable, also over a supplied units_per_pixel.
validate_scale_ReferenceFirst(scale) ==
    IF scale.reference_distance # None
       /\ scale.reference_pixel_length \notin {None, Some(0)}
    THEN DeriveMultiplier(scale)
    ELSE IF scale.units_per_pixel # None THEN scale
    ELSE IF scale.unit_name # "px" THEN ValidationError
    ELSE scale

\* ScalePayload.validate_scale: the validated scale, or the error.
validate_scale(scale) ==
    IF scale.units_per_pixel # None THEN scale
    ELSE IF scale.reference_distance # None
            /\ scale.reference_pixel_length \notin {None, Some(0)}
    THEN DeriveMultiplier(scale)
    ELSE IF scale.unit_name # "px" THEN ValidationError
    ELSE scale

\* A validate_points without the three-point guard.
validate_points_NoGuard(body) == body

\* MeasurePayload.validate_points: the payload, or the error.
validate_points(body) ==
    IF body.closed /\ ~can_close_loop(body.points)
    THEN ValidationError
    ELSE body

\* Parsing a request body into a MeasurePayload: the scale is validated as
\* a field, then the payload's own validator runs.
ParsePayload(body) ==
    LET scale == validate_scale(body.scale)
    IN  IF scale \in {ValidationError, ZeroDivisionError} THEN scale
        ELSE validate_points([body EXCEPT !.scale = scale])

\* MeasurementResult.to_dict.
to_dict(m) ==
    [total_pixels        |-> m.total_pixels,
     area_pixels         |-> m.area_pixels,
     unit_name           |-> m.unit_name,
     unit_label          |-> m.unit_label,
     display_unit_name   |-> m.display_unit_name,
     unit_multiplier     |-> m.unit_multiplier,
     total_units         |-> m.total_units,
     area_units          |-> m.area_units,
     closed              |-> m.closed,
     points_count        |-> m.points_count,
     secondary_distances |-> m.secondary_distances,
     secondary_areas     |-> m.secondary_areas]

\* [point.model_dump() for point in payload.points]
DumpPoints(pts) == [i \in 1..Len(pts) |-> [x |-> pts[i].x, y |-> pts[i].y]]

\* payload.scale.model_dump()
DumpScale(scale) ==
    [unit_name              |-> scale.unit_name,
     units_per_pixel        |-> scale.units_per_pixel,
     reference_distance     |-> scale.reference_distance,
     reference_pixel_length |-> scale.reference_pixel_length]

\* The record measure_points hands to save_session.
SessionRecord(parsed, measurement) ==
    [points      |-> DumpPoints(parsed.points),
     closed      |-> parsed.closed,
     scale       |-> DumpScale(parsed.scale),
     measurement |-> to_dict(measurement)]

\* A persistence guard that saves whenever persist is set, also under an
\* absent or empty session id.
ShouldPersist_Always(parsed) == parsed.persist

\* payload.persist and payload.session_id
ShouldPersist(parsed) ==
    parsed.persist /\ parsed.session_id # None /\ parsed.session_id[1] # ""

\* The key save_session files the record under.
SessionKey(parsed) ==
    IF parsed.session_id = None THEN "None" ELSE parsed.session_id[1]

\* The responses: no response yet, 422 for a validation error, 500 for any
\* other exception, 404 for an unknown session.
NoResponse == [status |-> 0]

UnprocessableEntity == [status |-> 422]

InternalServerError(exception) == [status |-> 500, exception |-> exception]

NotFound == [status |-> 404]

\* What get_session answers, given what load_session returned: 404 for
\* None, else the session id with the record.
SessionReply(session_id, session) ==
    IF session = None THEN NotFound
    ELSE [status     |-> 200,
          session_id |-> session_id,
          payload    |-> session[1]]

\* MeasurementResponse(session_id, measurement)
MeasurementResponse(session_id, measurement) ==
    [status |-> 200, session_id |-> session_id, measurement |-> measurement]

\* No request has arrived.
NoPayload == [none |-> TRUE]

\* What POST /measure answers to a request body that is not to be
\* persisted: 422, 500 or the measurement.
MeasureReply(body) ==
    LET parsed == ParsePayload(body)
    IN  IF parsed = ValidationError THEN UnprocessableEntity
        ELSE IF parsed = ZeroDivisionError
        THEN InternalServerError(parsed.error)
        ELSE LET measurement ==
                     compute_measurements(parsed.points, parsed.closed,
                                          parsed.scale.unit_name,
                                          parsed.scale.units_per_pixel)
             IN  IF measurement = OverflowError
                 THEN InternalServerError(measurement.raised)
                 ELSE MeasurementResponse(parsed.session_id,
                                          to_dict(measurement))

EngineIdle ==
    /\ points = <<>>
    /\ closed = FALSE
    /\ unit_name = "px"
    /\ units_per_pixel = None
    /\ result = <<>>

ApiIdle == payload = NoPayload /\ response = NoResponse /\ store = EmptyStore

\* The front end is not running.
NotRunning == [running |-> FALSE]

UiIdle == desktop = NotRunning /\ web = NotRunning

\* No thread is calling the SessionStore.
ThreadsIdle == lock = None /\ threads = <<>>

\* ------------------------------------------------------ the specification

\* No call has returned yet.
NoResult == <<>>

Init ==
    /\ points \in PointSeqs
    /\ closed \in BOOLEAN
    /\ unit_name \in UnitNames
    /\ units_per_pixel \in MultiplierChoices
    /\ result = NoResult
    /\ pc = "call"
    /\ history = {}
    /\ calls = 0
    /\ ApiIdle
    /\ UiIdle
    /\ ThreadsIdle

\* The arguments of the call of the state.
Arguments ==
    [points |-> points, closed |-> closed, unit_name |-> unit_name,
     units_per_pixel |-> units_per_pixel]

\* A compute_measurements that keeps its running total across calls: the
\* path length of a call is added to the total the previous call returned.
Measure_Cached ==
    /\ pc = "call"
    /\ LET fresh   == compute_measurements(points, closed, unit_name,
                                           units_per_pixel)
           outcome == IF fresh = OverflowError \/ result = NoResult
                         \/ result = OverflowError
                      THEN fresh
                      ELSE [fresh EXCEPT !.total_pixels =
                                FAdd(result.total_pixels, @)]
       IN  /\ result' = outcome
           /\ pc' = IF result' = OverflowError THEN "raised" ELSE "done"
           /\ UNCHANGED <<points, closed, unit_name, units_per_pixel>>
           /\ history' = history \cup
                  {[args         |-> Arguments,
                    result       |-> result',
                    points_after |-> points']}
    /\ calls' = calls + 1
    /\ UNCHANGED api_vars
    /\ UNCHANGED ui_vars
    /\ UNCHANGED thread_vars

\* One invocation of compute_measurements with the arguments of the state:
\* it returns a MeasurementResult ("done") or ends with an exception
\* ("raised").
Measure ==
    /\ pc = "call"
    /\ LET outcome == compute_measurements(points, closed, unit_name,
                                           units_per_pixel)
       IN  /\ result' = outcome
           /\ pc' = IF result' = OverflowError THEN "raised" ELSE "done"
           /\ UNCHANGED <<points, closed, unit_name, units_per_pixel>>
           /\ history' = history \cup
                  {[args         |-> Arguments,
                    result       |-> result',
                    points_after |-> points']}
    /\ calls' = calls + 1
    /\ UNCHANGED api_vars
    /\ UNCHANGED ui_vars
    /\ UNCHANGED thread_vars

Next == Measure

Spec == Init /\ [][Next]_vars

\* ------------------------------------------- a sequence of invocations

\* The point sequences, units and multipliers of the calls of a sequence.
CallPointSeqs ==
    {<<>>, <<Pt(0, 0), Pt(1, 0), OffGridPoint>>,
     <<Pt(0, 0), Pt(1, 0), Pt(1, 1), Pt(0, 1)>>}

CallArgs ==
    [points : CallPointSeqs, closed : BOOLEAN, unit_name : {"px", "mi"},
     units_per_pixel : {None, Some(FromDecimal(64, 1))}]

CallsInit ==
    /\ \E a \in CallArgs :
           /\ points = a.points
           /\ closed = a.closed
           /\ unit_name = a.unit_name
           /\ units_per_pixel = a.units_per_pixel
    /\ result = NoResult
    /\ pc = "call"
    /\ history = {}
    /\ calls = 0
    /\ ApiIdle
    /\ UiIdle
    /\ ThreadsIdle

\* The caller sets up the next call, after the previous one returned or
\* raised.
NextCall ==
    /\ pc \in {"done", "raised"}
    /\ calls < MaxCalls
    /\ \E a \in CallArgs :
           /\ points' = a.points
           /\ closed' = a.closed
           /\ unit_name' = a.unit_name
           /\ units_per_pixel' = a.units_per_pixel
    /\ pc' = "call"
    /\ UNCHANGED <<result, history, calls>>
    /\ UNCHANGED api_vars
    /\ UNCHANGED ui_vars
    /\ UNCHANGED thread_vars

CallsNext == Measure \/ NextCall

CallsSpec == CallsInit /\ [][CallsNext]_vars

\* ------------------------------------------------- one /measure request

\* The request bodies: point lists, units (the five known ones and one that
\* is not among them), multipliers, reference pairs, session ids.
RequestPointSeqs ==
    {<<>>, <<Pt(0, 0), Pt(1, 1)>>, <<Pt(0, 0), Pt(1, 0), OffGridPoint>>,
     <<Pt(0, 0), Pt(1, 0), Pt(1, 1), Pt(0, 1)>>}

RequestUnits == UnitNames \cup {"furlong"}

ScaleChoices ==
    [unit_name              : RequestUnits,
     units_per_pixel        : MultiplierChoices,
     reference_distance     : {None, Some(FromDecimal(5, 1))},
     reference_pixel_length : {None, Some(0), Some(FromDecimal(3, 1))}]

SessionIds == {None, Some(""), Some("s1")}

Requests ==
    [points : RequestPointSeqs, closed : BOOLEAN, scale : ScaleChoices,
     session_id : SessionIds, persist : BOOLEAN]

ApiInit ==
    /\ EngineIdle
    /\ history = {}
    /\ calls = 0
    /\ payload \in Requests
    /\ response = NoResponse
    /\ store = EmptyStore
    /\ pc = "request"
    /\ UiIdle
    /\ ThreadsIdle

\* A measure_points that answers from the session file: when the request
\* names a stored session, the measurement stored for it is returned in
\* place of a fresh one.
measure_points_FromStore ==
    /\ pc = "request"
    /\ pc' = "responded"
    /\ LET parsed == ParsePayload(payload)
       IN  IF parsed = ValidationError
           THEN /\ response' = UnprocessableEntity
                /\ UNCHANGED <<store, history, calls>>
           ELSE IF parsed = ZeroDivisionError
           THEN /\ response' = InternalServerError(parsed.error)
                /\ UNCHANGED <<store, history, calls>>
           ELSE LET measurement ==
                        IF SessionKey(parsed) \in DOMAIN store
                        THEN store[SessionKey(parsed)].measurement
                        ELSE compute_measurements(parsed.points, parsed.closed,
                                                  parsed.scale.unit_name,
                                                  parsed.scale.units_per_pixel)
                IN  /\ calls' = calls + 1
                    /\ history' = history \cup
                           {[args         |->
                                 [points          |-> parsed.points,
                                  closed          |-> parsed.closed,
                                  unit_name       |-> parsed.scale.unit_name,
                                  units_per_pixel |-> parsed.scale.units_per_pixel],
                             result       |-> measurement,
                             points_after |-> parsed.points]}
                    /\ IF measurement = OverflowError
                       THEN /\ response' = InternalServerError(measurement.raised)
                            /\ UNCHANGED store
                       ELSE /\ response' =
                                  MeasurementResponse(parsed.session_id,
                                                      to_dict(measurement))
                            /\ store' =
                                  IF ShouldPersist(parsed)
                                  THEN save_session(store, SessionKey(parsed),
                                           SessionRecord(parsed, measurement))
                                  ELSE store
    /\ UNCHANGED payload
    /\ UNCHANGED engine_vars
    /\ UNCHANGED ui_vars
    /\ UNCHANGED thread_vars

\* POST /measure: the body is parsed and validated (422 on a validation
\* error, before the handler runs); the handler calls compute_measurements
\* (an exception of the call ends the request with 500), builds the
\* response and saves the session when asked to.
measure_points ==
    /\ pc = "request"
    /\ pc' = "responded"
    /\ LET parsed == ParsePayload(payload)
       IN  IF parsed = ValidationError
           THEN /\ response' = UnprocessableEntity
                /\ UNCHANGED <<store, history, calls>>
           ELSE IF parsed = ZeroDivisionError
           THEN /\ response' = InternalServerError(parsed.error)
                /\ UNCHANGED <<store, history, calls>>
           ELSE LET measurement ==
                        compute_measurements(parsed.points, parsed.closed,
                                             parsed.scale.unit_name,
                                             parsed.scale.units_per_pixel)
                IN  /\ calls' = calls + 1
                    /\ history' = history \cup
                           {[args         |->
                                 [points          |-> parsed.points,
                                  closed          |-> parsed.closed,
                                  unit_name       |-> parsed.scale.unit_name,
                                  units_per_pixel |-> parsed.scale.units_per_pixel],
                             result       |-> measurement,
                             points_after |-> parsed.points]}
                    /\ IF measurement = OverflowError
                       THEN /\ response' = InternalServerError(measurement.raised)
                            /\ UNCHANGED store
                       ELSE /\ response' =
                                  MeasurementResponse(parsed.session_id,
                                                      to_dict(measurement))
                            /\ store' =
                                  IF ShouldPersist(parsed)
                                  THEN save_session(store, SessionKey(parsed),
                                           SessionRecord(parsed, measurement))
                                  ELSE store
    /\ UNCHANGED payload
    /\ UNCHANGED engine_vars
    /\ UNCHANGED ui_vars
    /\ UNCHANGED thread_vars

ApiNext == measure_points

ApiSpec == ApiInit /\ [][ApiNext]_vars

\* ------------------------------------------- a sequence of HTTP requests

\* The request bodies of a sequence: two point lists, the pixel default
\* scale and centimetres at 64.0 per pixel, absent, empty and two real
\* session ids.
SessionRequests ==
    [points     : {<<Pt(0, 0), Pt(1, 1)>>, <<Pt(0, 0), Pt(1, 0), Pt(1, 1)>>},
     closed     : BOOLEAN,
     scale      : {[unit_name |-> "px", units_per_pixel |-> None,
                    reference_distance |-> None,
                    reference_pixel_length |-> None],
                   [unit_name |-> "cm", units_per_pixel |-> None,
                    reference_distance |-> Some(FromDecimal(64, 1)),
                    reference_pixel_length |-> Some(FromDecimal(1, 1))]},
     session_id : {None, Some(""), Some("s1"), Some("s2")},
     persist    : BOOLEAN]

\* The session ids of GET /sessions/{session_id}.
LoadIds == {"s1", "s2"}

SessionsInit ==
    /\ EngineIdle
    /\ history = {}
    /\ calls = 0
    /\ payload \in SessionRequests
    /\ response = NoResponse
    /\ store = EmptyStore
    /\ pc = "request"
    /\ UiIdle
    /\ ThreadsIdle

\* The next POST /measure arrives.
NextRequest ==
    /\ pc \in {"responded", "loaded"}
    /\ calls < MaxCalls
    /\ payload' \in SessionRequests
    /\ pc' = "request"
    /\ UNCHANGED <<response, store, history, calls>>
    /\ UNCHANGED engine_vars
    /\ UNCHANGED ui_vars
    /\ UNCHANGED thread_vars

\* GET /sessions/{session_id}: 404 for an unknown id, else the record.
get_session ==
    /\ pc \in {"responded", "loaded"}
    /\ pc' = "loaded"
    /\ \E session_id \in LoadIds :
           LET session == load_session(store, session_id)
           IN  /\ payload' = [session_id |-> session_id]
               /\ response' = SessionReply(session_id, session)
    /\ UNCHANGED <<store, history, calls>>
    /\ UNCHANGED engine_vars
    /\ UNCHANGED ui_vars
    /\ UNCHANGED thread_vars

SessionsNext == measure_points \/ NextRequest \/ get_session

SessionsSpec == SessionsInit /\ [][SessionsNext]_vars

\* ------------------------------- concurrent calls of the SessionStore

\* The request handlers run in the threads of the server's pool and share
\* the one SessionStore of api.py.
Threads == 1..MaxThreads

\* The session a thread saves as its own, and one that an earlier run left
\* in the file.
OwnSession(t) == <<"own", t>>

SharedSession == <<"shared">>

\* Two session records that differ.
RecordA == [points |-> <<>>, closed |-> FALSE]

RecordB == [points |-> <<Pt(0, 0), Pt(1, 1)>>, closed |-> FALSE]

\* The calls a thread makes: it saves, deletes or loads its own session or
\* the shared one, or lists the sessions.
ThreadCalls(t) ==
    {[op |-> "save_session",   session_id |-> OwnSession(t),  data |-> RecordA],
     [op |-> "save_session",   session_id |-> SharedSession,  data |-> RecordB],
     [op |-> "delete_session", session_id |-> SharedSession,  data |-> None],
     [op |-> "delete_session", session_id |-> OwnSession(t),  data |-> None],
     [op |-> "load_session",   session_id |-> OwnSession(t),  data |-> None],
     [op |-> "list_sessions",  session_id |-> SharedSession,  data |-> None]}

\* A thread about to make a call: nothing read, nothing returned, nothing
\* written.
ThreadStart(call) ==
    [call      |-> call,
     pc        |-> "start",
     payload   |-> EmptyStore,
     result    |-> None,
     written   |-> FALSE]

StoreInit ==
    /\ EngineIdle
    /\ history = {}
    /\ calls = 0
    /\ payload = NoPayload
    /\ response = NoResponse
    /\ UiIdle
    /\ pc = "store"
    /\ store = save_session(EmptyStore, SharedSession, RecordA)
    /\ lock = None
    /\ threads \in {f \in [Threads -> UNION {{ThreadStart(c) : c \in ThreadCalls(t)}
                                             : t \in Threads}] :
                       \A t \in Threads : f[t].call \in ThreadCalls(t)}

\* threads and lock change as given, the file as given, nothing else.
ThreadStep(t, next, file, holder) ==
    /\ threads' = [threads EXCEPT ![t] = next]
    /\ store' = file
    /\ lock' = holder
    /\ UNCHANGED <<pc, history, calls, payload, response>>
    /\ UNCHANGED engine_vars
    /\ UNCHANGED ui_vars

\* An entry of "with self._lock" that does not wait for the lock.
AcquireLock_NoWait(t) ==
    /\ threads[t].pc = "start"
    /\ ThreadStep(t, [threads[t] EXCEPT !.pc = "locked"], store, Some(t))

\* with self._lock: the thread enters when the lock is free.
AcquireLock(t) ==
    /\ threads[t].pc = "start"
    /\ lock = None
    /\ ThreadStep(t, [threads[t] EXCEPT !.pc = "locked"], store, Some(t))

\* payload = self._read()
ReadFile(t) ==
    /\ threads[t].pc = "locked"
    /\ ThreadStep(t, [threads[t] EXCEPT !.pc = "read", !.payload = store],
                  store, lock)

\* save_session: payload[session_id] = data; self._write(payload); the lock
\* is released.
FinishSave(t) ==
    /\ threads[t].pc = "read"
    /\ threads[t].call.op = "save_session"
    /\ ThreadStep(t, [threads[t] EXCEPT !.pc = "returned", !.written = TRUE],
                  save_session(threads[t].payload, threads[t].call.session_id,
                               threads[t].call.data),
                  None)

\* delete_session: if session_id in payload: del payload[session_id];
\* self._write(payload); the lock is released.
FinishDelete(t) ==
    /\ threads[t].pc = "read"
    /\ threads[t].call.op = "delete_session"
    /\ IF threads[t].call.session_id \in DOMAIN threads[t].payload
       THEN ThreadStep(t, [threads[t] EXCEPT !.pc = "returned",
                                             !.written = TRUE],
                       delete_session(threads[t].payload,
                                      threads[t].call.session_id),
                       None)
       ELSE ThreadStep(t, [threads[t] EXCEPT !.pc = "returned"], store, None)

\* load_session: return payload.get(session_id); the lock is released.
FinishLoad(t) ==
    /\ threads[t].pc = "read"
    /\ threads[t].call.op = "load_session"
    /\ ThreadStep(t, [threads[t] EXCEPT
                          !.pc = "returned",
                          !.result = load_session(threads[t].payload,
                                                  threads[t].call.session_id)],
                  store, None)

\* list_sessions: return self._read(); the lock is released.
FinishList(t) ==
    /\ threads[t].pc = "read"
    /\ threads[t].call.op = "list_sessions"
    /\ ThreadStep(t, [threads[t] EXCEPT
                          !.pc = "returned",
                          !.result = Some(list_sessions(threads[t].payload))],
                  store, None)

StoreAcquire == \E t \in Threads : AcquireLock(t)

StoreRead == \E t \in Threads : ReadFile(t)

StoreSave == \E t \in Threads : FinishSave(t)

StoreDelete == \E t \in Threads : FinishDelete(t)

StoreLoad == \E t \in Threads : FinishLoad(t)

StoreList == \E t \in Threads : FinishList(t)

StoreNext ==
    \/ StoreAcquire \/ StoreRead \/ StoreSave \/ StoreDelete \/ StoreLoad
    \/ StoreList

StoreSpec == StoreInit /\ [][StoreNext]_vars

\* ------------------------------------------- image_measurement_tool.py

\* The positions a user clicks: three corners of a pixel square.
ClickPoints == {Pt(0, 0), Pt(1, 0), Pt(1, 1)}

\* The distances a user enters in the "Scale distance" dialog, whose
\* minimum is 0.0001: 2.5.
EnteredDistances == {FromDecimal(25, 10)}

\* list.pop(index), for a 1-based index.
RemoveAt(seq, index) ==
    [i \in 1..(Len(seq) - 1) |-> IF i < index THEN seq[i] ELSE seq[i + 1]]

\* What the web page last requested.  No request yet: no points, open.
NoMeasurement == [points_count |-> 0, closed |-> FALSE]

\* MeasurementWindow.distance
MeasurementWindow_distance(start, end) ==
    Hypot(start.x - end.x, start.y - end.y)

\* The loop of update_distance_label over
\* zip(self.path_points[:-1], self.path_points[1:]).
RECURSIVE LabelLoop(_, _, _)
LabelLoop(pts, i, total_pixels) ==
    IF i >= Len(pts) THEN total_pixels
    ELSE LabelLoop(pts, i + 1,
                   FAdd(total_pixels,
                        MeasurementWindow_distance(pts[i], pts[i + 1])))

\* The loop of MeasurementWindow.polygon_area: idx is the 0-based index of
\* the code.
RECURSIVE WindowAreaLoop(_, _, _)
WindowAreaLoop(pts, idx, area) ==
    IF idx >= Len(pts) THEN area
    ELSE LET point      == pts[idx + 1]
             next_point == pts[((idx + 1) % Len(pts)) + 1]
         IN  WindowAreaLoop(pts, idx + 1,
                 FSub(FAdd(area, FMul(point.x, next_point.y)),
                      FMul(next_point.x, point.y)))

\* MeasurementWindow.polygon_area
MeasurementWindow_polygon_area(pts) ==
    IF Len(pts) < 3 THEN 0
    ELSE FDiv(Abs(WindowAreaLoop(pts, 0, 0)), 2 * Scale)

\* A get_unit_multiplier that prefers the calibrated scale over the pixel
\* unit's 1.0.
get_unit_multiplier_Calibrated(w) ==
    IF w.units_per_pixel # None THEN w.units_per_pixel
    ELSE IF w.unit_name = "px" THEN Some(Scale)
    ELSE None

\* MeasurementWindow.get_unit_multiplier
get_unit_multiplier(w) ==
    IF w.unit_name = "px" THEN Some(Scale) ELSE w.units_per_pixel

\* What update_distance_label derives for the total label, with the fields
\* it derived them from.  derived is FALSE for "Distance: 0" (fewer than two
\* points); closed is TRUE for a "Perimeter" label.  The entered distances
\* and the pixel distances of the scale keep unit_multiplier ** 2 finite.
DistanceLabel(w) ==
    LET pts             == w.path_points
        is_loop         == w.path_closed /\ Len(pts) >= 3
        total_pixels    ==
            IF is_loop
            THEN FAdd(LabelLoop(pts, 1, 0),
                      MeasurementWindow_distance(pts[Len(pts)], pts[1]))
            ELSE LabelLoop(pts, 1, 0)
        area_pixels     ==
            IF is_loop THEN MeasurementWindow_polygon_area(pts) ELSE 0
        unit_multiplier == get_unit_multiplier(w)
        total_units     ==
            IF unit_multiplier # None
            THEN Some(FMul(total_pixels, unit_multiplier[1]))
            ELSE None
        area_units      ==
            IF unit_multiplier # None /\ is_loop
            THEN Some(FMul(area_pixels,
                           FMul(unit_multiplier[1], unit_multiplier[1])))
            ELSE None
        inputs          ==
            [points          |-> pts,
             path_closed     |-> w.path_closed,
             unit_name       |-> w.unit_name,
             units_per_pixel |-> w.units_per_pixel,
             points_count    |-> Len(pts)]
    IN  IF Len(pts) < 2
        THEN inputs @@
             [derived         |-> FALSE,
              closed          |-> FALSE,
              total_pixels    |-> 0,
              area_pixels     |-> 0,
              unit_multiplier |-> None,
              total_units     |-> None,
              area_units      |-> None,
              km_value        |-> None,
              km_area         |-> None]
        ELSE inputs @@
             [derived         |-> TRUE,
              closed          |-> is_loop,
              total_pixels    |-> total_pixels,
              area_pixels     |-> area_pixels,
              unit_multiplier |-> unit_multiplier,
              total_units     |-> total_units,
              area_units      |-> area_units,
              km_value        |->
                  IF total_units # None /\ w.unit_name = "mi"
                  THEN Some(FMul(total_units[1], KmPerMile))
                  ELSE None,
              km_area         |->
                  IF area_units # None /\ w.unit_name = "mi"
                  THEN Some(FMul(area_units[1], FMul(KmPerMile, KmPerMile)))
                  ELSE None]

\* MeasurementWindow.__init__.  Of the fields, the graphics items and the
\* status text are left out: no handler reads them, except path_markers,
\* which holds one marker per path point.  computed is what the total label
\* shows ("Distance: 0 px" at the start).
MeasurementWindow_init ==
    [background_item |-> FALSE,
     mode            |-> "idle",
     scale_points    |-> <<>>,
     path_points     |-> <<>>,
     path_closed     |-> FALSE,
     units_per_pixel |-> None,
     unit_name       |-> "px",
     computed        |->
         DistanceLabel([path_points |-> <<>>, path_closed |-> FALSE,
                        units_per_pixel |-> None, unit_name |-> "px"])]

update_distance_label(w) == [w EXCEPT !.computed = DistanceLabel(w)]

reset_scale_items(w) == [w EXCEPT !.scale_points = <<>>]

clear_path(w) ==
    update_distance_label([w EXCEPT !.path_points = <<>>, !.path_closed = FALSE])

MeasurementWindow_reset_measurements(w) ==
    clear_path(reset_scale_items([w EXCEPT !.units_per_pixel = None]))

\* open_image with a file chosen and loaded.
open_image(w) ==
    MeasurementWindow_reset_measurements([w EXCEPT !.background_item = TRUE])

start_scale_selection(w) ==
    IF ~w.background_item THEN w
    ELSE [reset_scale_items(w) EXCEPT !.mode = "scale_first"]

handle_scale_first_click(w, point) ==
    [w EXCEPT !.scale_points = <<point>>, !.mode = "scale_second"]

\* handle_scale_second_click; value and ok are what the "Scale distance"
\* dialog returns.
handle_scale_second_click(w, point, value, ok) ==
    LET clicked == [w EXCEPT !.scale_points = Append(@, point)]
    IN  IF Len(clicked.scale_points) # 2 THEN clicked
        ELSE LET distance_pixels ==
                     MeasurementWindow_distance(clicked.scale_points[1],
                                                clicked.scale_points[2])
             IN  IF distance_pixels = 0
                 THEN [reset_scale_items(clicked) EXCEPT !.mode = "scale_first"]
                 ELSE IF ok /\ value > 0
                 THEN update_distance_label(
                          [clicked EXCEPT
                               !.units_per_pixel =
                                   Some(FDiv(value, distance_pixels)),
                               !.mode = "idle"])
                 ELSE [reset_scale_items(clicked) EXCEPT !.mode = "idle"]

\* start_path_tracing; reply is the answer to the "No scale set" question.
start_path_tracing(w, reply) ==
    IF ~w.background_item THEN w
    ELSE IF w.units_per_pixel = None /\ w.unit_name # "px" /\ reply # "Yes"
    THEN w
    ELSE [w EXCEPT !.mode = "trace", !.path_points = <<>>,
                   !.path_closed = FALSE]

handle_trace_click(w, point) ==
    IF w.path_closed THEN w
    ELSE update_distance_label([w EXCEPT !.path_points = Append(@, point)])

\* A remove_path_point_at that leaves path_closed as it is.
remove_path_point_at_KeepClosed(w, index) ==
    IF index = 0 THEN w
    ELSE update_distance_label(
             [w EXCEPT !.path_points = RemoveAt(@, index)])

\* remove_path_point_at; index is the marker found under the cursor
\* (1-based), 0 when there is none.
remove_path_point_at(w, index) ==
    IF index = 0 THEN w
    ELSE update_distance_label(
             [w EXCEPT !.path_points = RemoveAt(@, index),
                       !.path_closed = FALSE])

cancel_mode(w) ==
    IF w.mode = "trace" THEN [w EXCEPT !.mode = "idle"]
    ELSE IF w.mode \in {"scale_first", "scale_second"}
    THEN [reset_scale_items(w) EXCEPT !.mode = "idle"]
    ELSE w

MeasurementWindow_close_path_loop(w) ==
    IF Len(w.path_points) < 3 THEN w
    ELSE IF w.path_closed THEN w
    ELSE update_distance_label([w EXCEPT !.path_closed = TRUE])

\* set_units with a unit chosen in the dialog.
set_units(w, value) == update_distance_label([w EXCEPT !.unit_name = value])

\* ------------------------------------------------------- webapp/state.py

\* A float that may be nan: float("nan") is a float that is neither <= 0
\* nor > 0.
Float(v) == [nan |-> FALSE, ticks |-> v]

NaN == [nan |-> TRUE, ticks |-> 0]

\* value > 0 and value <= 0, as Python evaluates them.
IsPositive(value) == ~value.nan /\ value.ticks > 0

NotPositive(value) == ~value.nan /\ value.ticks <= 0

\* The ValueError float() raises for a string that is no number.
ValueError == [error |-> "ValueError"]

\* The positions a user clicks on the canvas.
CanvasPoints == {Pt(0, 0), Pt(1, 0)}

\* The strings the number inputs hand to update_units_per_pixel and
\* provide_scale_measurement.
InputTexts == {"2.5", "0", "abc", "nan"}

\* float(value)
ParseFloat(text) ==
    CASE text = "2.5" -> Float(FromDecimal(25, 10))
      [] text = "0"   -> Float(FromDecimal(0, 1))
      [] text = "nan" -> NaN
      [] OTHER        -> ValueError

\* The messages of _finish_measurement_failure and set_units_per_pixel.
NotPositiveMessage == "Units per pixel must be greater than zero."

StatusErrorMessage == "Measurement request failed."

TransportErrorMessage == "transport error"

InvalidDataMessage == "Measurement succeeded but returned invalid data."

NoResultsMessage == "Measurement succeeded but no results were provided."

\* What can become of a posted request: the server answers it, the
\* transport fails (httpx.RequestError, which includes the timeout of 60
\* seconds), the body is no JSON, or the body holds no measurement.
Outcomes == {"answered", "transport_error", "invalid_json", "no_measurement"}

\* The fields of a new MeasurementState, api_base_url being configured.  Of
\* the fields, the texts, the theme, image_url and the upload fields are
\* left out: no handler reads them.  The measure_path tasks are kept with the state:
\* pending counts the tasks started by _schedule_measurement that have not
\* run yet, in_flight holds the bodies posted to /measure and not answered
\* yet, requested the points and the closed flag of the last request sent.
MeasurementState_init ==
    [mode               |-> "idle",
     unit_name          |-> "px",
     units_per_pixel    |-> Float(Scale),
     total_distance     |-> 0,
     scale_points       |-> <<>>,
     path_points        |-> <<>>,
     path_closed        |-> FALSE,
     measuring          |-> FALSE,
     measurement_error  |-> None,
     measurement_result |-> None,
     pending            |-> 0,
     in_flight          |-> <<>>,
     requested          |-> NoMeasurement]

clear_measurement(st) ==
    [st EXCEPT !.measurement_result = None, !.total_distance = 0,
               !.measuring = FALSE, !.measurement_error = None]

start_measurement(st) ==
    [st EXCEPT !.measuring = TRUE, !.measurement_error = None]

\* _finish_measurement_success: total_units is a float or None, total_pixels
\* a float.
finish_measurement_success(st, measurement) ==
    [st EXCEPT !.measuring = FALSE, !.measurement_error = None,
               !.measurement_result = Some(measurement),
               !.total_distance =
                   IF measurement.total_units # None
                   THEN measurement.total_units[1]
                   ELSE measurement.total_pixels]

finish_measurement_failure(st, message) ==
    [st EXCEPT !.measuring = FALSE, !.measurement_error = Some(message),
               !.measurement_result = None, !.total_distance = 0]

\* _schedule_measurement: a measure_path task is started when the path has
\* two points; otherwise the measurement shown is cleared.
schedule_measurement(st) ==
    IF Len(st.path_points) >= 2 THEN [st EXCEPT !.pending = @ + 1]
    ELSE clear_measurement(st)

start_path_mode(st) == [st EXCEPT !.mode = "path"]

start_scale_mode(st) == [st EXCEPT !.mode = "scale", !.scale_points = <<>>]

\* MeasurementState._distance
MeasurementState_distance(a, b) == Hypot(a.x - b.x, a.y - b.y)

complete_scale_mode(st, real_world_distance) ==
    LET pixel_distance ==
            MeasurementState_distance(st.scale_points[1], st.scale_points[2])
        scaled ==
            IF Len(st.scale_points) = 2 /\ IsPositive(real_world_distance)
               /\ pixel_distance > 0
            THEN [st EXCEPT !.units_per_pixel =
                      Float(FDiv(real_world_distance.ticks, pixel_distance))]
            ELSE st
    IN  schedule_measurement([scaled EXCEPT !.mode = "idle"])

end_active_mode(st) == [st EXCEPT !.mode = "idle"]

\* _add_scale_point
add_scale_point(st, point) ==
    LET scale_points == IF Len(st.scale_points) >= 2 THEN <<>>
                        ELSE st.scale_points
    IN  [st EXCEPT !.scale_points = Append(scale_points, point)]

\* An _add_path_point that puts the new point in front of the path.
add_path_point_InFront(st, point) ==
    LET started == IF st.mode = "idle" THEN start_path_mode(st) ELSE st
        fresh   == IF started.path_closed
                   THEN [started EXCEPT !.path_closed = FALSE,
                                        !.path_points = <<>>]
                   ELSE started
    IN  schedule_measurement([fresh EXCEPT !.path_points = <<point>> \o @])

add_path_point(st, point) ==
    LET started == IF st.mode = "idle" THEN start_path_mode(st) ELSE st
        fresh   == IF started.path_closed
                   THEN [started EXCEPT !.path_closed = FALSE,
                                        !.path_points = <<>>]
                   ELSE started
    IN  schedule_measurement([fresh EXCEPT !.path_points = Append(@, point)])

remove_last_path_point(st) ==
    schedule_measurement(
        IF st.path_points # <<>>
        THEN [st EXCEPT !.path_points = SubSeq(@, 1, Len(@) - 1),
                        !.path_closed = FALSE]
        ELSE st)

handle_canvas_click(st, point, button) ==
    IF st.mode = "scale" /\ button = "left" THEN add_scale_point(st, point)
    ELSE IF st.mode \in {"path", "idle"}
    THEN IF button = "left" THEN add_path_point(st, point)
         ELSE IF button = "right" THEN remove_last_path_point(st)
         ELSE st
    ELSE st

\* A close_path_loop without the three-point guard.
MeasurementState_close_path_loop_NoGuard(st) ==
    IF ~st.path_closed
    THEN schedule_measurement([st EXCEPT !.path_closed = TRUE])
    ELSE st

MeasurementState_close_path_loop(st) ==
    IF Len(st.path_points) >= 3 /\ ~st.path_closed
    THEN schedule_measurement([st EXCEPT !.path_closed = TRUE])
    ELSE st

MeasurementState_reset_measurements(st) ==
    clear_measurement(
        [st EXCEPT !.mode = "idle", !.scale_points = <<>>,
                   !.path_points = <<>>, !.path_closed = FALSE,
                   !.units_per_pixel = Float(Scale), !.total_distance = 0])

\* _complete_upload
complete_upload(st) == MeasurementState_reset_measurements(st)

set_unit_name(st, unit) == schedule_measurement([st EXCEPT !.unit_name = unit])

\* A set_units_per_pixel that clears the measurement shown when it rejects
\* its input.
set_units_per_pixel_ClearOnReject(st, value) ==
    IF NotPositive(value)
    THEN [st EXCEPT !.measurement_error = Some(NotPositiveMessage),
                    !.measuring = FALSE, !.measurement_result = None]
    ELSE schedule_measurement([st EXCEPT !.units_per_pixel = value])

set_units_per_pixel(st, value) ==
    IF NotPositive(value)
    THEN [st EXCEPT !.measurement_error = Some(NotPositiveMessage),
                    !.measuring = FALSE]
    ELSE schedule_measurement([st EXCEPT !.units_per_pixel = value])

update_units_per_pixel(st, text) ==
    IF ParseFloat(text) = ValueError THEN st
    ELSE set_units_per_pixel(st, ParseFloat(text))

provide_scale_measurement(st, text) ==
    IF ParseFloat(text) = ValueError THEN st
    ELSE complete_scale_mode(st, ParseFloat(text))

\* The body measure_path posts to /measure for the fields of st, as the
\* server reads it (fields left out take their defaults).
RequestBody(st) ==
    [points     |-> st.path_points,
     closed     |-> st.path_closed,
     scale      |->
         [unit_name              |-> st.unit_name,
          units_per_pixel        |->
              IF st.unit_name = "px" THEN Some(Scale)
              ELSE IF IsPositive(st.units_per_pixel)
              THEN Some(st.units_per_pixel.ticks)
              ELSE None,
          reference_distance     |-> None,
          reference_pixel_length |-> None],
     session_id |-> None,
     persist    |-> FALSE]

\* measure_path, from the start of the task to the request: below two points
\* the measurement shown is cleared and the task ends; otherwise the body is
\* built from the fields as they are now, measuring is set and the body is
\* posted.
measure_path(st) ==
    IF Len(st.path_points) < 2
    THEN [clear_measurement(st) EXCEPT !.pending = @ - 1]
    ELSE [start_measurement(st) EXCEPT
              !.pending   = @ - 1,
              !.in_flight = Append(@, RequestBody(st)),
              !.requested = [points_count |-> Len(st.path_points),
                             closed       |-> st.path_closed]]

\* measure_path, from the end of the request numbered index to the end of
\* the task; reply is what the server answered, read when the outcome is
\* "answered".
finish_measure_path(st, index, outcome, reply) ==
    LET answered == [st EXCEPT !.in_flight = RemoveAt(@, index)]
    IN  IF outcome = "transport_error"
        THEN finish_measurement_failure(answered, TransportErrorMessage)
        ELSE IF outcome = "invalid_json"
        THEN finish_measurement_failure(answered, InvalidDataMessage)
        ELSE IF outcome = "no_measurement"
        THEN finish_measurement_failure(answered, NoResultsMessage)
        ELSE IF reply.status # 200
        THEN finish_measurement_failure(answered, StatusErrorMessage)
        ELSE finish_measurement_success(answered, reply.measurement)

\* ------------------------------------------------------- the front ends

\* One of the two front ends runs.
UiInit ==
    /\ EngineIdle
    /\ history = {}
    /\ calls = 0
    /\ ApiIdle
    /\ ThreadsIdle
    /\ pc = "ui"
    /\ \/ desktop = MeasurementWindow_init /\ web = NotRunning
       \/ desktop = NotRunning /\ web = MeasurementState_init

\* desktop becomes next, everything else stays.
DesktopStep(next) ==
    /\ desktop # NotRunning
    /\ desktop' = next
    /\ UNCHANGED <<web, pc, history, calls>>
    /\ UNCHANGED engine_vars
    /\ UNCHANGED api_vars
    /\ UNCHANGED thread_vars

\* web becomes next, everything else stays.
WebStep(next) ==
    /\ web # NotRunning
    /\ web' = next
    /\ UNCHANGED <<desktop, pc, history, calls>>
    /\ UNCHANGED engine_vars
    /\ UNCHANGED api_vars
    /\ UNCHANGED thread_vars

\* The events of the desktop window (eventFilter and the buttons).
DesktopOpenImage == DesktopStep(open_image(desktop))

DesktopSetScale == DesktopStep(start_scale_selection(desktop))

DesktopTracePath ==
    \E reply \in {"Yes", "No"} : DesktopStep(start_path_tracing(desktop, reply))

DesktopLeftClick ==
    /\ desktop # NotRunning
    /\ \E point \in ClickPoints :
           IF desktop.mode = "scale_first"
           THEN DesktopStep(handle_scale_first_click(desktop, point))
           ELSE IF desktop.mode = "scale_second"
           THEN \E value \in EnteredDistances, ok \in BOOLEAN :
                    DesktopStep(handle_scale_second_click(desktop, point,
                                                          value, ok))
           ELSE /\ desktop.mode = "trace"
                /\ Len(desktop.path_points) < MaxPath
                /\ DesktopStep(handle_trace_click(desktop, point))

DesktopRightClick ==
    /\ desktop # NotRunning
    /\ IF desktop.mode \in {"scale_first", "scale_second"}
       THEN DesktopStep(cancel_mode(desktop))
       ELSE \E index \in 0..Len(desktop.path_points) :
                DesktopStep(remove_path_point_at(desktop, index))

DesktopEscape ==
    /\ desktop # NotRunning
    /\ desktop.mode # "idle"
    /\ DesktopStep(cancel_mode(desktop))

DesktopClosePath == DesktopStep(MeasurementWindow_close_path_loop(desktop))

DesktopClearPath == DesktopStep(clear_path(desktop))

DesktopSetUnits ==
    \E value \in {"px", "cm", "mi"} : DesktopStep(set_units(desktop, value))

\* The events of the web page.  An event that starts a measure_path task
\* waits while MaxTasks tasks are running.
WebEvent(next) ==
    /\ WebStep(next)
    /\ web'.pending + Len(web'.in_flight) <= MaxTasks

WebUpload == web # NotRunning /\ WebEvent(complete_upload(web))

WebCanvasClick ==
    /\ web # NotRunning
    /\ Len(web.path_points) < MaxCanvasPath \/ web.path_closed
    /\ \E point \in CanvasPoints, button \in {"left", "right"} :
           WebEvent(handle_canvas_click(web, point, button))

WebSetScale == web # NotRunning /\ WebEvent(start_scale_mode(web))

WebProvideScale ==
    /\ web # NotRunning
    /\ \E text \in InputTexts : WebEvent(provide_scale_measurement(web, text))

WebUnitsPerPixel ==
    /\ web # NotRunning
    /\ \E text \in InputTexts : WebEvent(update_units_per_pixel(web, text))

WebTracePath == web # NotRunning /\ WebEvent(start_path_mode(web))

WebEndMode == web # NotRunning /\ WebEvent(end_active_mode(web))

WebClosePath ==
    web # NotRunning /\ WebEvent(MeasurementState_close_path_loop(web))

WebReset ==
    web # NotRunning /\ WebEvent(MeasurementState_reset_measurements(web))

WebSetUnit ==
    /\ web # NotRunning
    /\ \E unit \in {"px", "cm"} : WebEvent(set_unit_name(web, unit))

\* A waiting measure_path task runs up to its request.
WebMeasurePath ==
    /\ web # NotRunning
    /\ web.pending > 0
    /\ WebStep(measure_path(web))

\* A request ends and its task runs to its end.
WebResponse ==
    /\ web # NotRunning
    /\ \E index \in 1..Len(web.in_flight), outcome \in Outcomes :
           \E reply \in {MeasureReply(web.in_flight[index])} :
               WebStep(finish_measure_path(web, index, outcome, reply))

UiNext ==
    \/ DesktopOpenImage \/ DesktopSetScale \/ DesktopTracePath
    \/ DesktopLeftClick \/ DesktopRightClick \/ DesktopEscape
    \/ DesktopClosePath \/ DesktopClearPath \/ DesktopSetUnits
    \/ WebUpload \/ WebCanvasClick \/ WebSetScale \/ WebProvideScale
    \/ WebUnitsPerPixel \/ WebTracePath \/ WebEndMode \/ WebClosePath
    \/ WebReset \/ WebSetUnit \/ WebMeasurePath \/ WebResponse

UiSpec == UiInit /\ [][UiNext]_vars

\* ------------------------------------------------- the desktop window alone

DesktopInit ==
    /\ EngineIdle
    /\ history = {}
    /\ calls = 0
    /\ ApiIdle
    /\ ThreadsIdle
    /\ pc = "ui"
    /\ desktop = MeasurementWindow_init
    /\ web = NotRunning

DesktopNext ==
    \/ DesktopOpenImage \/ DesktopSetScale \/ DesktopTracePath
    \/ DesktopLeftClick \/ DesktopRightClick \/ DesktopEscape
    \/ DesktopClosePath \/ DesktopClearPath \/ DesktopSetUnits

DesktopSpec == DesktopInit /\ [][DesktopNext]_vars

\* ------------------------------------------------------ the web page alone

WebInit ==
    /\ EngineIdle
    /\ history = {}
    /\ calls = 0
    /\ ApiIdle
    /\ ThreadsIdle
    /\ pc = "ui"
    /\ desktop = NotRunning
    /\ web = MeasurementState_init

WebNext ==
    \/ WebUpload \/ WebCanvasClick \/ WebSetScale \/ WebProvideScale
    \/ WebUnitsPerPixel \/ WebTracePath \/ WebEndMode \/ WebClosePath
    \/ WebReset \/ WebSetUnit \/ WebMeasurePath \/ WebResponse

WebSpec == WebInit /\ [][WebNext]_vars

\* ------------------------------------------------------------------ claims

Done == pc = "done"

\* Every point of pts has whole-pixel coordinates.
OnGrid(pts) ==
    \A i \in 1..Len(pts) : pts[i].x % Scale = 0 /\ pts[i].y % Scale = 0

\* C1: the closed field of the result is true exactly when closing was
\* requested and the sequence has at least 3 points; with 0, 1 or 2 points it
\* is false even when closing was requested.
C1_ClosedIffRequestedAndEligible ==
    Done => /\ result.closed = (closed /\ Len(points) >= 3)
            /\ result.closed = (closed /\ can_close_loop(points))
            /\ (Len(points) <= 2 => ~result.closed)

\* A closed request on two points, answered with closed = false.
C1_Witness ==
    /\ Done
    /\ closed
    /\ Len(points) = 2
    /\ ~result.closed

\* d is the Euclidean distance of p and q as a float: a float, and no
\* neighbouring float is nearer to the square root of the squared distance.
IsEuclidean(p, q, d) ==
    LET n == (p.x - q.x) * (p.x - q.x) + (p.y - q.y) * (p.y - q.y)
        above == d + Quantum(d)
        below == IF d = 0 THEN 0 ELSE d - Quantum(d - 1)
    IN  /\ d >= 0
        /\ RoundRat(d, 1) = d
        /\ 4 * n <= (d + above) * (d + above)
        /\ 4 * n >= (d + below) * (d + below)

\* distance_between_points is the Euclidean distance, for every two points a
\* caller can pass.
DistancesAreEuclidean ==
    \A p, q \in PointChoices : IsEuclidean(p, q, distance_between_points(p, q))

\* The float sum, in index order, of the distances of points[i] and
\* points[i+1] for the first n points.
RECURSIVE SegmentSum(_, _)
SegmentSum(pts, n) ==
    IF n < 2 THEN 0
    ELSE LET prev == SegmentSum(pts, n - 1)
         IN  FAdd(prev, distance_between_points(pts[n - 1], pts[n]))

\* C2: total_pixels is the sum, in index order, of the Euclidean distances of
\* consecutive points, plus the distance from the last point back to the
\* first exactly when closed was requested and there are at least 3 points;
\* it is 0 for fewer than 2 points.
C2_TotalIsSegmentSum ==
    Done =>
        /\ DistancesAreEuclidean
        /\ result.total_pixels =
               (IF closed /\ Len(points) >= 3
                THEN FAdd(SegmentSum(points, Len(points)),
                          distance_between_points(points[Len(points)], points[1]))
                ELSE SegmentSum(points, Len(points)))
        /\ (Len(points) < 2 => result.total_pixels = 0)

\* A closed request on the two points (0,0), (1,1): the segment of length
\* sqrt(2) (2896 ticks, 1.4140625) is counted once.
C2_Witness ==
    /\ Done
    /\ closed
    /\ points = <<Pt(0, 0), Pt(1, 1)>>
    /\ result.total_pixels = 2896

\* C3: area_pixels is 0 whenever the sequence has fewer than 3 points or
\* closed was not requested; it is non-zero only when the result's closed
\* field is true and points_count >= 3.
C3_AreaZeroUnlessClosed ==
    Done => /\ (Len(points) < 3 \/ ~closed) => result.area_pixels = 0
            /\ result.area_pixels # 0 =>
                   (result.closed /\ result.points_count >= 3)

\* An open triangle that encloses half a pixel and reports area 0.
C3_Witness ==
    /\ Done
    /\ ~closed
    /\ Len(points) >= 3
    /\ polygon_area(points) # 0
    /\ result.area_pixels = 0

\* The shoelace sum over the 0-based indices 0..k-1, accumulated in index
\* order in float arithmetic: x_i * y_((i+1) mod n) is added, then
\* x_((i+1) mod n) * y_i is subtracted.
RECURSIVE ShoelaceSum(_, _)
ShoelaceSum(pts, k) ==
    IF k = 0 THEN 0
    ELSE LET p     == pts[k]
             q     == pts[(k % Len(pts)) + 1]
             prev  == ShoelaceSum(pts, k - 1)
             added == FAdd(prev, FMul(p.x, q.y))
         IN  FSub(added, FMul(q.x, p.y))

\* The same sum in whole pixels, without any rounding, for points on the
\* pixel grid.
RECURSIVE ExactShoelaceSum(_, _)
ExactShoelaceSum(pts, k) ==
    IF k = 0 THEN 0
    ELSE LET p == pts[k]
             q == pts[(k % Len(pts)) + 1]
         IN  ExactShoelaceSum(pts, k - 1)
             + (p.x \div Scale) * (q.y \div Scale)
             - (q.x \div Scale) * (p.y \div Scale)

\* Segments a-b and c-d cross in a single interior point.
Cross(o, a, b) ==
    FSub(FMul(a.x - o.x, b.y - o.y), FMul(a.y - o.y, b.x - o.x))

SegmentsCross(a, b, c, d) ==
    /\ Sign(Cross(a, b, c)) * Sign(Cross(a, b, d)) < 0
    /\ Cross(a, b, c) # 0 /\ Cross(a, b, d) # 0
    /\ Sign(Cross(c, d, a)) * Sign(Cross(c, d, b)) < 0
    /\ Cross(c, d, a) # 0 /\ Cross(c, d, b) # 0

\* C4: polygon_area returns 0 for fewer than 3 points and otherwise abs(S)/2
\* for the wrapping shoelace sum S, self-intersecting polygons included; on
\* the pixel grid this is the exact value.
C4_PolygonAreaIsShoelace ==
    Done =>
        LET returned == polygon_area(points)
        IN  /\ Len(points) < 3 => returned = 0
            /\ Len(points) >= 3 =>
                   /\ returned
                          = FDiv(Abs(ShoelaceSum(points, Len(points))), 2 * Scale)
                   /\ OnGrid(points) =>
                          2 * returned
                              = Abs(ExactShoelaceSum(points, Len(points))) * Scale
            /\ result.closed => result.area_pixels = returned

\* A closed self-intersecting quadrilateral (its first and third sides
\* cross) with a non-zero shoelace value, measured and not rejected.
C4_Witness ==
    /\ Done
    /\ result.closed
    /\ Len(points) = 4
    /\ SegmentsCross(points[1], points[2], points[3], points[4])
    /\ result.area_pixels > 0
    /\ result.area_pixels
           = FDiv(Abs(ShoelaceSum(points, Len(points))), 2 * Scale)

Reverse(pts) == [i \in 1..Len(pts) |-> pts[Len(pts) + 1 - i]]

\* C5 as stated: for every closed polygon of at least 3 points the reversed
\* point sequence yields the same area_pixels.
C5_ReversalSameArea ==
    (Done /\ result.closed) =>
        compute_measurements(Reverse(points), closed, unit_name,
                             units_per_pixel).area_pixels = result.area_pixels

\* C5 amended: for every closed polygon of at least 3 points with whole-pixel
\* coordinates the reversed point sequence yields the same area_pixels.
C5_WindingIndependence ==
    (Done /\ result.closed /\ OnGrid(points)) =>
        compute_measurements(Reverse(points), closed, unit_name,
                             units_per_pixel).area_pixels = result.area_pixels

\* The unit square traced in one direction, area 1.0, whose reverse is a
\* different sequence.
C5_Witness ==
    /\ Done
    /\ result.closed
    /\ points = <<Pt(0, 0), Pt(0, 1), Pt(1, 1), Pt(1, 0)>>
    /\ Reverse(points) # points
    /\ result.area_pixels = Scale

\* C6: resolve_unit_multiplier returns exactly 1.0 for the unit "px" whatever
\* multiplier was supplied, and for every other unit the supplied multiplier
\* unchanged, None when it was None.
C6_ResolveUnitMultiplier ==
    Done =>
        /\ resolve_unit_multiplier(unit_name, units_per_pixel)
               = (IF unit_name = "px" THEN Some(Scale) ELSE units_per_pixel)
        /\ result.unit_multiplier
               = (IF unit_name = "px" THEN Some(Scale) ELSE units_per_pixel)

\* The pixel unit with an unrelated multiplier of 2.5 supplied.
C6_Witness ==
    /\ Done
    /\ unit_name = "px"
    /\ units_per_pixel = Some(FromDecimal(25, 10))
    /\ result.unit_multiplier = Some(Scale)

\* C7: either unit_multiplier, total_units and area_units are all absent, or
\* unit_multiplier and total_units are present and area_units is present
\* exactly when the result's closed field is true; the pixel outputs are
\* produced in both cases.
C7_UnitFieldsPresence ==
    Done =>
        /\ \/ /\ result.unit_multiplier = None
              /\ result.total_units = None
              /\ result.area_units = None
           \/ /\ result.unit_multiplier # None
              /\ result.total_units # None
              /\ (result.area_units # None) = result.closed
        /\ result.total_pixels \in Nat
        /\ result.area_pixels \in Nat

\* A multiplier of 0.0 is present: the unit outputs are present (and 0.0).
C7_Witness ==
    /\ Done
    /\ unit_name = "cm"
    /\ units_per_pixel = Some(0)
    /\ result.closed
    /\ result.total_pixels > 0
    /\ result.total_units = Some(0)
    /\ result.area_units = Some(0)

\* C8: with the resolved multiplier m present, total_units is
\* total_pixels * m and, when the loop is effectively closed, area_units is
\* area_pixels * m^2; for the unit "px" they equal total_pixels and
\* area_pixels whatever units_per_pixel was supplied.
C8_UnitConversion ==
    (Done /\ result.unit_multiplier # None) =>
        LET m == result.unit_multiplier[1]
        IN  /\ result.total_units = Some(FMul(result.total_pixels, m))
            /\ result.closed =>
                   result.area_units = Some(FMul(result.area_pixels, FMul(m, m)))
            /\ unit_name = "px" =>
                   /\ result.total_units = Some(result.total_pixels)
                   /\ result.closed =>
                          result.area_units = Some(result.area_pixels)

\* The closed unit square in pixels with an unrelated 2.5 supplied:
\* total_units 4.0 and area_units 1.0, as total_pixels and area_pixels.
C8_Witness ==
    /\ Done
    /\ closed
    /\ points = <<Pt(0, 0), Pt(1, 0), Pt(1, 1), Pt(0, 1)>>
    /\ unit_name = "px"
    /\ units_per_pixel = Some(FromDecimal(25, 10))
    /\ result.total_pixels = 4 * Scale
    /\ result.area_pixels = Scale
    /\ result.total_units = Some(4 * Scale)
    /\ result.area_units = Some(Scale)

\* C9: in miles with total_units and area_units present, secondary_areas
\* holds the key "km²" with the value area_units * 1.60934^2, and no other
\* key.
C9_KmSquaredKey ==
    (Done /\ unit_name = "mi" /\ result.total_units # None
          /\ result.area_units # None) =>
        /\ DOMAIN result.secondary_areas = {"km²"}
        /\ result.secondary_areas["km²"]
               = FMul(result.area_units[1], FMul(KmPerMile, KmPerMile))

\* C10: in miles with a multiplier supplied, secondary_distances holds
\* exactly the key "km", with the value total_units * 1.60934.
C10_KmDistance ==
    (Done /\ unit_name = "mi" /\ units_per_pixel # None) =>
        /\ result.total_units # None
        /\ DOMAIN result.secondary_distances = {"km"}
        /\ result.secondary_distances["km"]
               = FMul(result.total_units[1], FromDecimal(160934, 100000))

\* One pixel at 1.0 mile per pixel: total_units 1.0 and 1.60934 km (the
\* float nearest to it, 3296 ticks).
C10_Witness ==
    /\ Done
    /\ unit_name = "mi"
    /\ units_per_pixel = Some(Scale)
    /\ result.total_pixels = Scale
    /\ result.total_units = Some(Scale)
    /\ result.secondary_distances["km"] = 3296

\* C11: secondary_distances and secondary_areas are both empty unless the
\* unit is the mile unit and total_units is present; they are empty for px,
\* mm, cm and km, and for miles without a multiplier.
C11_SecondaryOnlyForMiles ==
    Done =>
        /\ ~(result.unit_name = "mi" /\ result.total_units # None) =>
               /\ result.secondary_distances = EmptyDict
               /\ result.secondary_areas = EmptyDict
        /\ (unit_name \in {"px", "mm", "cm", "km"}
               \/ (unit_name = "mi" /\ units_per_pixel = None)) =>
               /\ result.secondary_distances = EmptyDict
               /\ result.secondary_areas = EmptyDict

\* A closed triangle measured in kilometres at 2.5 km per pixel: total_units
\* and area_units are present and both maps are empty.
C11_Witness ==
    /\ Done
    /\ unit_name = "km"
    /\ units_per_pixel = Some(FromDecimal(25, 10))
    /\ closed
    /\ Len(points) = 3
    /\ result.total_units # None
    /\ result.total_units[1] > 0
    /\ result.area_units # None
    /\ result.secondary_distances = EmptyDict
    /\ result.secondary_areas = EmptyDict

\* C12: compute_measurements never raises: for every point sequence, closed
\* flag and unit configuration the call returns a result.
C12_NeverRaises == pc # "raised"

Responded == pc = "responded"

\* C15: every measurement the /measure endpoint returns has a unit_name
\* among px, mm, cm, km, mi: a request cannot introduce another unit.
C15_UnitSetClosed ==
    (Responded /\ response.status = 200) =>
        response.measurement.unit_name \in {"px", "mm", "cm", "km", "mi"}

\* C16: a request with closed = true and fewer than 3 points is answered
\* with a validation error, without a call of compute_measurements and
\* without a saved session; every measurement returned has its closed field
\* equal to the requested flag.
C16_RejectsEarlyClose ==
    Responded =>
        /\ (payload.closed /\ Len(payload.points) < 3) =>
               /\ response = UnprocessableEntity
               /\ calls = 0
               /\ history = {}
               /\ store = EmptyStore
        /\ response.status = 200 =>
               response.measurement.closed = payload.closed

\* A two-point request in pixels asking for a closed path and for
\* persistence under "s1" was rejected.
C16_Witness ==
    /\ Responded
    /\ payload.closed
    /\ Len(payload.points) = 2
    /\ payload.scale.unit_name = "px"
    /\ payload.persist
    /\ payload.session_id = Some("s1")
    /\ response = UnprocessableEntity
    /\ calls = 0
    /\ store = EmptyStore

\* No multiplier can be derived from the scale object.
Underivable(scale) ==
    /\ scale.units_per_pixel = None
    /\ \/ scale.reference_distance = None
       \/ scale.reference_pixel_length = None
       \/ scale.reference_pixel_length = Some(0)

\* C18: a request with a non-pixel unit and no derivable multiplier is
\* rejected with a validation error; no request ends with a division by
\* zero; every measurement returned for a non-pixel unit has
\* unit_multiplier and total_units present.
C18_RejectsUncalibrated ==
    Responded =>
        /\ (payload.scale.unit_name # "px" /\ Underivable(payload.scale)) =>
               response = UnprocessableEntity /\ calls = 0
        /\ response # InternalServerError("ZeroDivisionError")
        /\ (response.status = 200 /\ payload.scale.unit_name # "px") =>
               /\ response.measurement.unit_multiplier # None
               /\ response.measurement.total_units # None

\* Centimetres with a reference distance of 5.0 over a pixel length of 0.0
\* and no units_per_pixel: rejected.
C18_Witness ==
    /\ Responded
    /\ payload.scale.unit_name = "cm"
    /\ payload.scale.units_per_pixel = None
    /\ payload.scale.reference_distance = Some(FromDecimal(5, 1))
    /\ payload.scale.reference_pixel_length = Some(0)
    /\ ~payload.closed
    /\ response = UnprocessableEntity

\* C19: a supplied units_per_pixel is passed to the engine unchanged,
\* whatever the reference pair; without it, a reference distance and a
\* non-zero pixel length make the multiplier passed to the engine
\* reference_distance / reference_pixel_length.
C19_MultiplierDerivation ==
    Responded =>
        \A call \in history :
            LET scale  == payload.scale
                passed == call.args.units_per_pixel
            IN  /\ scale.units_per_pixel # None =>
                       passed = scale.units_per_pixel
                /\ (scale.units_per_pixel = None
                      /\ scale.reference_distance # None
                      /\ scale.reference_pixel_length \notin {None, Some(0)}) =>
                       passed = Some(FDiv(scale.reference_distance[1],
                                          scale.reference_pixel_length[1]))

\* Centimetres calibrated by 5.0 cm over 3.0 pixels: the engine was called
\* with 5.0 / 3.0 (3413 ticks) and the measurement carries it.
C19_Witness ==
    /\ Responded
    /\ payload.scale.unit_name = "cm"
    /\ payload.scale.units_per_pixel = None
    /\ payload.scale.reference_distance = Some(FromDecimal(5, 1))
    /\ payload.scale.reference_pixel_length = Some(FromDecimal(3, 1))
    /\ calls = 1
    /\ \E call \in history : call.args.units_per_pixel = Some(3413)
    /\ response.status = 200
    /\ response.measurement.unit_multiplier = Some(3413)
    /\ response.measurement.total_pixels > 0

\* The stored scale holds what the request's scale supplied: the unit and
\* every field the request gave a value.
HoldsScale(stored, requested) ==
    /\ stored.unit_name = requested.unit_name
    /\ \A field \in {"units_per_pixel", "reference_distance",
                      "reference_pixel_length"} :
           requested[field] # None => stored[field] = requested[field]

\* C20, as stated: every /measure request with persist true and a non-empty
\* session id is persisted, the record filed under the id holding the
\* request's points, closed flag and scale; any other request leaves the
\* sessions as they are.
C20_PersistedIffAsked ==
    [][ pc = "request" =>
            IF payload.persist /\ payload.session_id \notin {None, Some("")}
            THEN LET session == load_session(store', payload.session_id[1])
                 IN  /\ session # None
                     /\ session[1].points = payload.points
                     /\ session[1].closed = payload.closed
                     /\ HoldsScale(session[1].scale, payload.scale)
            ELSE store' = store
      ]_vars

\* C20: a /measure request that is answered with a measurement is persisted
\* exactly when persist is true and the session id is non-empty; the record
\* then filed under the id holds the request's points, closed flag and
\* scale (with the multiplier derived for it) and the measurement returned,
\* replacing what the id held; every other step leaves the sessions as they
\* are, and loading an id returns the record it holds.
C20_Persistence ==
    [][ /\ (pc = "request" /\ response'.status = 200) =>
               IF payload.persist /\ payload.session_id \notin {None, Some("")}
               THEN LET session_id == payload.session_id[1]
                        session    == load_session(store', session_id)
                    IN  /\ session # None
                        /\ session[1].points = payload.points
                        /\ session[1].closed = payload.closed
                        /\ HoldsScale(session[1].scale, payload.scale)
                        /\ session[1].measurement = response'.measurement
                        /\ DOMAIN store' = DOMAIN store \cup {session_id}
                        /\ \A other \in DOMAIN store \ {session_id} :
                               store'[other] = store[other]
               ELSE store' = store
        /\ ~(pc = "request" /\ response'.status = 200) => store' = store
        /\ pc' = "loaded" =>
               response' =
                   IF payload'.session_id \in DOMAIN store
                   THEN [status     |-> 200,
                         session_id |-> payload'.session_id,
                         payload    |-> store[payload'.session_id]]
                   ELSE NotFound
      ]_vars

\* After three measurements, session "s1" was loaded: it holds a closed
\* triangle with the measurement returned for it (calibrated by the
\* reference pair 64.0 / 1.0 it was sent with), while "s2" holds another
\* record.
C20_Witness ==
    /\ pc = "loaded"
    /\ calls = 3
    /\ payload.session_id = "s1"
    /\ response.status = 200
    /\ response.payload = store["s1"]
    /\ ~response.payload.closed
    /\ Len(response.payload.points) = 3
    /\ response.payload.scale.unit_name = "cm"
    /\ response.payload.scale.reference_distance = Some(FromDecimal(64, 1))
    /\ response.payload.measurement.unit_multiplier = Some(FromDecimal(64, 1))
    /\ response.payload.measurement.points_count = 3
    /\ "s2" \in DOMAIN store
    /\ store["s2"] # store["s1"]

\* C17: in both front ends, after any sequence of user events, path_closed
\* is true only if the path has at least 3 points, and no measurement is
\* computed (desktop) or requested (web) with closed = true and fewer than
\* 3 points.
C17_ClosedNeedsThreePoints ==
    /\ desktop # NotRunning =>
           /\ desktop.path_closed => Len(desktop.path_points) >= 3
           /\ desktop.computed.closed => desktop.computed.points_count >= 3
    /\ web # NotRunning =>
           /\ web.path_closed => Len(web.path_points) >= 3
           /\ web.requested.closed => web.requested.points_count >= 3

\* The web page requested a measurement of a closed path of 3 points, after
\* which a point was removed: the path is open again, with 2 points, and a
\* new measure_path task is waiting.
C17_Witness ==
    /\ web # NotRunning
    /\ web.requested = [points_count |-> 3, closed |-> TRUE]
    /\ Len(web.path_points) = 2
    /\ ~web.path_closed
    /\ web.pending > 0

\* The arguments measure_points passes to the engine for a request body:
\* the points, the closed flag, the unit and the multiplier given with the
\* scale or derived from its reference pair.
EngineArguments(body) ==
    [points          |-> body.points,
     closed          |-> body.closed,
     unit_name       |-> body.scale.unit_name,
     units_per_pixel |->
         IF body.scale.units_per_pixel # None THEN body.scale.units_per_pixel
         ELSE IF body.scale.reference_distance # None
                 /\ body.scale.reference_pixel_length \notin {None, Some(0)}
         THEN Some(FDiv(body.scale.reference_distance[1],
                        body.scale.reference_pixel_length[1]))
         ELSE None]

\* C21: the measurement returned by /measure is the engine's result for the
\* request's own points, closed flag and scale, whatever the session file
\* holds and whether or not the request is persisted; the engine is called
\* once, with exactly these arguments; and a /measure request with persist
\* false or without a session id leaves the session file as it is.
C21_StoreIndependence ==
    [][ pc = "request" =>
            /\ response'.status = 200 =>
                   /\ response'.measurement =
                          compute_measurements(payload.points, payload.closed,
                              payload.scale.unit_name,
                              EngineArguments(payload).units_per_pixel)
                   /\ calls' = calls + 1
                   /\ \E call \in history' :
                          /\ call.args = EngineArguments(payload)
                          /\ call.result = response'.measurement
            /\ (~payload.persist \/ payload.session_id = None) => store' = store
      ]_vars

\* A request that is not to be persisted names session "s1" while the file
\* holds a record under "s1" with another measurement: the request was
\* answered with its own measurement and the file still holds the record.
C21_Witness ==
    /\ pc = "responded"
    /\ response.status = 200
    /\ ~payload.persist
    /\ payload.session_id = Some("s1")
    /\ "s1" \in DOMAIN store
    /\ store["s1"].measurement # response.measurement
    /\ store["s1"].points # payload.points

\* The value a dict holds under key, or None.
Lookup(dict, key) == IF key \in DOMAIN dict THEN Some(dict[key]) ELSE None

\* C22: whatever the path, its closed state, the unit and the calibration
\* of the desktop window, the pixel length, pixel area, resolved multiplier,
\* unit length, unit area and the kilometre values of miles that
\* update_distance_label derives are the fields of
\* compute_measurements(path_points, closed=path_closed, unit_name,
\* units_per_pixel); below two points, where the label shows a distance of
\* 0, the engine's length and area are 0.
C22_DesktopMatchesEngine ==
    desktop # NotRunning =>
        LET label == desktop.computed
            m     == compute_measurements(label.points, label.path_closed,
                                          label.unit_name,
                                          label.units_per_pixel)
        IN  /\ m # OverflowError
            /\ label.total_pixels = m.total_pixels
            /\ label.area_pixels = m.area_pixels
            /\ label.closed = m.closed
            /\ label.derived =>
                   /\ label.unit_multiplier = m.unit_multiplier
                   /\ label.total_units = m.total_units
                   /\ label.area_units = m.area_units
                   /\ label.km_value = Lookup(m.secondary_distances, "km")
                   /\ label.km_area = Lookup(m.secondary_areas, "kmÂ²")

\* The label of a closed triangle in miles, calibrated by a scale drawn
\* along a diagonal: length, area, unit values and kilometre values are all
\* derived, and the area and the multiplier are no whole numbers.
C22_Witness ==
    /\ desktop # NotRunning
    /\ desktop.computed.derived
    /\ desktop.computed.closed
    /\ desktop.computed.unit_name = "mi"
    /\ desktop.computed.area_pixels = Scale \div 2
    /\ desktop.computed.unit_multiplier # None
    /\ desktop.computed.unit_multiplier[1] % Scale # 0
    /\ desktop.computed.km_value # None
    /\ desktop.computed.km_area # None
    /\ desktop.computed.km_area[1] > 0
    /\ desktop.computed.points = desktop.path_points

\* C30: in the desktop window, after any sequence of user actions, exactly
\* one scale point is recorded whenever mode is "scale_second", and
\* units_per_pixel is None or greater than 0.
C30_ScaleSelection ==
    desktop # NotRunning =>
        /\ desktop.mode = "scale_second" => Len(desktop.scale_points) = 1
        /\ desktop.units_per_pixel # None => desktop.units_per_pixel[1] > 0

\* Thread t saves a session that no other thread saves or deletes.
SavesAlone(t) ==
    /\ threads[t].call.op = "save_session"
    /\ \A u \in Threads \ {t} :
           threads[u].call.op \in {"save_session", "delete_session"} =>
               threads[u].call.session_id # threads[t].call.session_id

\* C23: when save_session calls for distinct session ids run concurrently in
\* several threads, in any interleaving, the store holds every one of the
\* saved sessions after all calls have returned; the lock is held by exactly
\* the thread that is between reading and writing the file, so at most one
\* thread is.
C23_NoLostUpdate ==
    /\ \A t \in DOMAIN threads :
           threads[t].pc \in {"locked", "read"} <=> lock = Some(t)
    /\ (\A t \in DOMAIN threads : threads[t].pc = "returned") =>
           \A t \in DOMAIN threads :
               SavesAlone(t) =>
                   load_session(store, threads[t].call.session_id)
                       = Some(threads[t].call.data)

\* All threads saved a session of their own and returned: the file holds
\* these sessions and the one it held before.
C23_Witness ==
    /\ threads # <<>>
    /\ \A t \in DOMAIN threads :
           /\ threads[t].pc = "returned"
           /\ threads[t].call.op = "save_session"
           /\ threads[t].call.session_id = OwnSession(t)
           /\ OwnSession(t) \in DOMAIN store
    /\ SharedSession \in DOMAIN store
    /\ Cardinality(DOMAIN store) = MaxThreads + 1

\* The entries of every session id other than session_id are the same in
\* the files before and after.
OthersUnchanged(before, after, session_id) ==
    /\ DOMAIN after \ {session_id} = DOMAIN before \ {session_id}
    /\ \A other \in DOMAIN before \ {session_id} : after[other] = before[other]

\* C24: a call of the SessionStore touches only the session it names.  When
\* save_session(id, d) returns, load_session(id) gives d and every other
\* entry of the file is as before; when delete_session(id) returns,
\* load_session(id) gives None and every other entry is as before, and
\* nothing was written if id was not stored; load_session and list_sessions
\* leave the file as it is and return the entry (None for an id that is not
\* stored, which get_session answers with 404) and the whole dict; no step
\* before the return changes the file.
C24_OnlyTheNamedKey ==
    [][ \A t \in DOMAIN threads :
            LET call == threads[t].call
                was  == threads[t]
                now  == threads'[t]
            IN  IF was.pc = "read" /\ now.pc = "returned"
                THEN /\ call.op = "save_session" =>
                            /\ load_session(store', call.session_id)
                                   = Some(call.data)
                            /\ OthersUnchanged(store, store', call.session_id)
                     /\ call.op = "delete_session" =>
                            /\ load_session(store', call.session_id) = None
                            /\ OthersUnchanged(store, store', call.session_id)
                            /\ call.session_id \notin DOMAIN store =>
                                   ~now.written /\ store' = store
                     /\ call.op = "load_session" =>
                            /\ store' = store
                            /\ ~now.written
                            /\ now.result = load_session(store, call.session_id)
                            /\ call.session_id \notin DOMAIN store =>
                                   /\ now.result = None
                                   /\ SessionReply(call.session_id, now.result)
                                          = NotFound
                     /\ call.op = "list_sessions" =>
                            /\ store' = store
                            /\ ~now.written
                            /\ now.result = Some(store)
                ELSE now # was => store' = store
      ]_vars

\* Every kind of call has returned: one thread deleted the shared session,
\* one saved a session of its own, and one found its own session missing,
\* with nothing written by it.
C24_Witness ==
    /\ threads # <<>>
    /\ \A t \in DOMAIN threads : threads[t].pc = "returned"
    /\ SharedSession \notin DOMAIN store
    /\ \E t \in DOMAIN threads :
           /\ threads[t].call.op = "delete_session"
           /\ threads[t].call.session_id = SharedSession
           /\ threads[t].written
    /\ \E t \in DOMAIN threads :
           /\ threads[t].call.op = "save_session"
           /\ load_session(store, OwnSession(t)) = Some(RecordA)
    /\ \E t \in DOMAIN threads :
           /\ threads[t].call.op = "load_session"
           /\ threads[t].result = None
           /\ ~threads[t].written

\* No measure_path task is waiting or running.
NoTaskRunning == web.pending = 0 /\ web.in_flight = <<>>

\* C25: in the web page, whenever no measurement request is in flight, the
\* measurement shown is the response to the request built from the current
\* path_points, path_closed, unit_name and units_per_pixel, or nothing is
\* shown and total_distance is 0 when the path has fewer than 2 points: the
\* response of an older request never remains shown.
C25_ShownIsCurrent ==
    (web # NotRunning /\ NoTaskRunning) =>
        IF Len(web.path_points) < 2
        THEN web.measurement_result = None /\ web.total_distance = 0
        ELSE web.measurement_result # None =>
                 /\ MeasureReply(RequestBody(web)).status = 200
                 /\ web.measurement_result
                        = Some(MeasureReply(RequestBody(web)).measurement)

\* C26: in the web page, measuring is true whenever a request is still in
\* flight, and every failure outcome of a request (error status, transport
\* error, non-JSON body, body without a measurement) leaves measuring false,
\* measurement_error set and measurement_result cleared.
C26_MeasuringWhileInFlight ==
    [][ web' # NotRunning =>
            /\ web'.in_flight # <<>> => web'.measuring
            /\ (Len(web'.in_flight) < Len(web.in_flight)
                /\ web'.measurement_result = None) =>
                   /\ ~web'.measuring
                   /\ web'.measurement_error # None
      ]_vars

\* C27: in the web page, units_per_pixel is greater than 0 in every
\* reachable state, so every request sent for a unit other than pixels
\* carries a units_per_pixel value.
C27_PositiveScale ==
    web # NotRunning =>
        /\ IsPositive(web.units_per_pixel)
        /\ \A i \in 1..Len(web.in_flight) :
               web.in_flight[i].scale.unit_name # "px" =>
                   web.in_flight[i].scale.units_per_pixel # None

\* C28: in the web page, rejected calibration input changes nothing it
\* should not.  In every reachable state: set_units_per_pixel with a value
\* <= 0 sets measurement_error and leaves units_per_pixel, path_points and
\* measurement_result as they are; complete_scale_mode leaves mode "idle"
\* whatever its input, and changes units_per_pixel only when there are two
\* scale points at a pixel distance above 0 and the distance entered is
\* above 0; a string that is no number, given to update_units_per_pixel or
\* provide_scale_measurement, leaves the whole state as it is.
C28_RejectedInput ==
    web # NotRunning =>
        \A text \in InputTexts :
            LET value == ParseFloat(text)
            IN  IF value = ValueError
                THEN /\ update_units_per_pixel(web, text) = web
                     /\ provide_scale_measurement(web, text) = web
                ELSE /\ NotPositive(value) =>
                            LET next == set_units_per_pixel(web, value)
                            IN  /\ next.measurement_error # None
                                /\ next.units_per_pixel = web.units_per_pixel
                                /\ next.path_points = web.path_points
                                /\ next.measurement_result
                                       = web.measurement_result
                     /\ LET next == complete_scale_mode(web, value)
                        IN  /\ next.mode = "idle"
                            /\ next.units_per_pixel # web.units_per_pixel =>
                                   /\ Len(web.scale_points) = 2
                                   /\ web.scale_points[1] # web.scale_points[2]
                                   /\ IsPositive(value)

\* A units-per-pixel entry of 0 was rejected while a measurement of a path
\* was shown under a calibrated scale: the message is set, the measurement
\* is still shown, and two scale points are recorded.
C28_Witness ==
    /\ web # NotRunning
    /\ web.measurement_error = Some(NotPositiveMessage)
    /\ web.measurement_result # None
    /\ Len(web.path_points) >= 2
    /\ Len(web.scale_points) = 2
    /\ web.units_per_pixel = Float(FromDecimal(25, 10))
    /\ web.unit_name = "cm"

\* C29: in the web page, in mode "path" or "idle", a left click on the
\* canvas while the path is closed starts a new path (afterwards
\* path_closed is false and path_points is the clicked point alone); a left
\* click while the path is open appends the point at the end, the points
\* before it keeping their order; a right click removes the last point
\* only, if there is one, and leaves path_closed false.
C29_CanvasClicks ==
    (web # NotRunning /\ web.mode \in {"path", "idle"}) =>
        \A point \in CanvasPoints :
            /\ LET next == handle_canvas_click(web, point, "left")
               IN  /\ ~next.path_closed
                   /\ next.path_points =
                          IF web.path_closed THEN <<point>>
                          ELSE web.path_points \o <<point>>
            /\ LET next == handle_canvas_click(web, point, "right")
               IN  /\ ~next.path_closed
                   /\ Len(next.path_points)
                          = IF web.path_points = <<>> THEN 0
                            ELSE Len(web.path_points) - 1
                   /\ \A i \in 1..Len(next.path_points) :
                          next.path_points[i] = web.path_points[i]

\* A closed path of three points was measured, and a left click then started
\* a new path: it holds the one clicked point and is open.
C29_Witness ==
    /\ web # NotRunning
    /\ web.requested = [points_count |-> 3, closed |-> TRUE]
    /\ web.mode = "path"
    /\ Len(web.path_points) = 1
    /\ ~web.path_closed
    /\ web.measurement_result = None
    /\ NoTaskRunning

====
